---- MODULE Spec2Model ----
(***************************************************************************)
(* Model of src/src/Player.ts: the Player character controller.            *)
(*                                                                         *)
(* Units.  Numbers of the source that are not integers are kept as         *)
(* integers of a fixed unit:                                               *)
(*   delta                 1/100 second   (0.02 s = 2)                      *)
(*   accelerationFactor    thousandths    (1 = 1000, 2 = 2000), so that    *)
(*                         "+= delta * 0.1" adds exactly delta             *)
(*   limit, linear damping tenths         (9.5 = 95, 1 = 10, 0.1 = 1)      *)
(*   capsule height, offset, radius, mass, friction   thousandths          *)
(*   timer delays, real time              milliseconds                     *)
(* A Vector3 of the physics body is a triple <<x, y, z>> of whole units.   *)
(* inputVelocity is kept as a direction in the horizontal plane (dx, dz    *)
(* in -1..1), the length given to setLength (mag, in 1e-6 units) and the   *)
(* vertical component y: the vector is the zero vector exactly when        *)
(* dx = dz = 0 and y = 0.                                                  *)
(***************************************************************************)
EXTENDS Integers, Sequences, FiniteSets, TLC

\* ------------------------------------------------------------------ bounds
\* At most this many cooldown timers are pending at once.
MaxTimers == 1

\* Real time advances in steps of this many milliseconds.
TickMs == 250

\* The frame times update() is called with (1/100 s), all > 0.
Deltas == {600}

\* The camera yaw, in quarter turns about the vertical axis.
Yaws == {0, 1}

\* Translations and velocities the physics engine may give the body in a step.
Translations == {<<0, 1, 0>>, <<0, -3, 0>>, <<0, -4, 0>>}
Velocities == {<<0, 0, 0>>, <<0, -9, 0>>}

\* ------------------------------------------------------- program constants
originalCapsuleHeight == 500
jumpCapsuleHeight == 250
originalCapsuleTranslation == <<0, 645, 0>>
jumpCapsuleTranslation == <<0, 800, 0>>
CapsuleRadius == 150
SpawnMass == 1000
SwapMass == 500
AccelerationOne == 1000
AccelerationCap == 2000
DefaultLimit == 10
WalkLimit == 95
JumpVelocity == 5
GroundedDamping == 40
AirborneDamping == 1
CooldownMs == 250
OutOfBoundsY == -3

Zero3 == <<0, 0, 0>>
ResetTranslation == <<0, 1, 0>>
SpawnPosition == <<0, 0, 0>>

Keys == {"KeyW", "KeyS", "KeyA", "KeyD", "Space"}
NoKeys == [k \in Keys |-> FALSE]

Min(a, b) == IF a < b THEN a ELSE b
Max(a, b) == IF a > b THEN a ELSE b

VARIABLES
    grounded,            \* this.grounded
    wait,                \* this.wait: the jump cooldown flag
    accelerationFactor,  \* this.accelerationFactor
    body,                \* this.body: translation, linvel, linearDamping
    colliders,           \* the colliders attached to this.body, in order
    timers,              \* pending setTimeout callbacks: ms left, oldest first
    sinceJump,           \* real time since the last successful jump, capped
    inputVelocity,       \* this.inputVelocity
    animation,           \* this.animationController: "none", "loading", "ready"
    keyMap,              \* this.keyboard.keyMap
    yaw,                 \* this.followCam.yaw.rotation.y, in quarter turns
    lastCall,            \* the method that made the last step ("event": none)
    calls                \* the collaborator calls that step made, in order

vars == <<grounded, wait, accelerationFactor, body, colliders, timers, sinceJump,
          inputVelocity, animation, keyMap, yaw, lastCall, calls>>

\* ----------------------------------------------------------------- helpers
\* ColliderDesc.capsule(height, 0.15).setTranslation(..).setMass(m).setFriction(0)
\*   .setActiveEvents(COLLISION_EVENTS)
ColliderDesc(height, translation, mass) ==
    [height |-> height, radius |-> CapsuleRadius, translation |-> translation,
     mass |-> mass, friction |-> 0, collisionEvents |-> TRUE]

SpawnCollider ==
    ColliderDesc(originalCapsuleHeight, originalCapsuleTranslation, SpawnMass)

\* The named profile of a collider, from its height and offset.
Profile(c) ==
    IF c.height = originalCapsuleHeight /\ c.translation = originalCapsuleTranslation
    THEN "standing"
    ELSE IF c.height = jumpCapsuleHeight /\ c.translation = jumpCapsuleTranslation
         THEN "crouchJump"
         ELSE "other"

Call(fn, vec) == [fn |-> fn, vec |-> vec]

\* Faulty variant: the swap that creates the new collider and leaves the old.
SwappedCollidersKeepsOld(cs, height, translation) ==
    Append(cs, ColliderDesc(height, translation, SwapMass))

\* updateCapsuleHeight: the colliders after the swap, and the calls it makes.
SwappedColliders(cs, height, translation) ==
    Append(Tail(cs), ColliderDesc(height, translation, SwapMass))

SwapCalls == <<Call("removeCollider", Zero3), Call("createCollider", Zero3)>>

\* Faulty variant: the respawn that forgets to stop the body.
ResetBodyKeepsVelocity(b) == [b EXCEPT !.translation = ResetTranslation]

\* Faulty variant: the respawn that takes the damping off the body.
ResetBodyClearsDamping(b) ==
    [b EXCEPT !.linvel = Zero3, !.translation = ResetTranslation, !.linearDamping = 0]

\* reset(): the body after it, and the calls it makes.
ResetBody(b) == [b EXCEPT !.linvel = Zero3, !.translation = ResetTranslation]

ResetCalls == <<Call("setLinvel", Zero3), Call("setTranslation", ResetTranslation),
                Call("ui.reset", Zero3)>>

\* ------------------------------------------------------ update(): the input
\* Faulty variant: the earlier key wins (forward beats back).
DirectionZForwardWins(km) ==
    IF km["KeyW"] THEN -1 ELSE IF km["KeyS"] THEN 1 ELSE 0

\* Lines 92-107: the local direction; a later key overwrites an earlier one.
DirectionZ(km) ==
    IF km["KeyS"] THEN 1 ELSE IF km["KeyW"] THEN -1 ELSE 0

DirectionX(km) ==
    IF km["KeyD"] THEN 1 ELSE IF km["KeyA"] THEN -1 ELSE 0

Limit(km) ==
    IF km["KeyW"] \/ km["KeyS"] \/ km["KeyA"] \/ km["KeyD"]
    THEN WalkLimit ELSE DefaultLimit

\* Faulty variant: the ramp without its cap.
NextAccelerationUncapped(factor, dx, dz, delta) ==
    IF dx # 0 \/ dz # 0 THEN factor + delta ELSE AccelerationOne

\* Faulty variant: a step that would pass the cap is dropped.
NextAccelerationStalls(factor, dx, dz, delta) ==
    IF dx # 0 \/ dz # 0
    THEN IF factor + delta > AccelerationCap THEN factor ELSE factor + delta
    ELSE AccelerationOne

\* Lines 109-116: the acceleration factor after a grounded frame.
NextAcceleration(factor, dx, dz, delta) ==
    IF dx # 0 \/ dz # 0
    THEN IF factor + delta > AccelerationCap THEN AccelerationCap ELSE factor + delta
    ELSE AccelerationOne

\* Lines 91-116: the acceleration factor after a frame.
FrameAcceleration(g, factor, km, delta) ==
    IF g THEN NextAcceleration(factor, DirectionX(km), DirectionZ(km), delta)
    ELSE factor

\* Vector3.setLength: normalize() leaves the zero vector alone.
SetLength(v, length) ==
    IF v.dx = 0 /\ v.dz = 0 THEN v ELSE [v EXCEPT !.mag = length]

\* Vector3.applyQuaternion with a rotation about Y by y quarter turns:
\* x' = x cos + z sin, z' = -x sin + z cos; the vertical component and the
\* length are kept.
ApplyYaw(v, y) ==
    IF y % 4 = 0 THEN v
    ELSE IF y % 4 = 1 THEN [v EXCEPT !.dx = v.dz, !.dz = -v.dx]
    ELSE IF y % 4 = 2 THEN [v EXCEPT !.dx = -v.dx, !.dz = -v.dz]
    ELSE [v EXCEPT !.dx = -v.dz, !.dz = v.dx]

ZeroVelocity == [dx |-> 0, dz |-> 0, mag |-> 0, y |-> 0]

IsZeroVector(v) == v.dx = 0 /\ v.dz = 0 /\ v.y = 0

\* Faulty variant: the jump that does not look at the cooldown flag.
JumpConditionIgnoresCooldown(g, w, km) == g /\ km["Space"]

\* Lines 91 and 120: the frame jumps.
JumpCondition(g, w, km) == g /\ ~w /\ km["Space"]

\* Faulty variant: the keys are read while airborne too.
LocalVelocityAirControl(g, w, factor, km, delta) ==
    LET v == SetLength([dx |-> DirectionX(km), dz |-> DirectionZ(km),
                        mag |-> 0, y |-> 0],
                       delta * Limit(km) * factor)
    IN  IF JumpCondition(g, w, km) THEN [v EXCEPT !.y = JumpVelocity] ELSE v

\* Lines 89-126: inputVelocity before the camera yaw is applied.
LocalVelocity(g, w, factor, km, delta) ==
    IF g
    THEN LET v == SetLength([dx |-> DirectionX(km), dz |-> DirectionZ(km),
                             mag |-> 0, y |-> 0],
                            delta * Limit(km) * FrameAcceleration(g, factor, km, delta))
         IN  IF JumpCondition(g, w, km) THEN [v EXCEPT !.y = JumpVelocity] ELSE v
    ELSE ZeroVelocity

\* Faulty variant: the boundary itself counts as out of bounds.
OutOfBoundsInclusive(translation) == translation[2] <= OutOfBoundsY

\* Line 137: the out-of-bounds test.
OutOfBounds(translation) == translation[2] < OutOfBoundsY

\* Lines 141-166 with the avatar's model available. (The rotateTowards of line
\* 162 acts on the avatar's quaternion alone, which is not part of the state.)
FollowCalls(translation) ==
    <<Call("followTarget.copy", translation), Call("pivot.lerp", translation),
      Call("model.lerp", translation), Call("lookAt", translation),
      Call("animationController.update", translation)>>

\* Lines 141-151 without it: Matrix4.lookAt reads its undefined target and
\* throws, so the rest of update() does not run.
FollowCallsUnavailable(translation) ==
    <<Call("followTarget.copy", translation), Call("pivot.lerp", translation),
      Call("throw", translation)>>

\* --------------------------------------------------------------------- Init
\* Faulty variant: the controller that starts grounded.
InitGrounded ==
    /\ grounded = TRUE
    /\ wait = FALSE
    /\ accelerationFactor = AccelerationOne
    /\ body = [translation |-> SpawnPosition, linvel |-> Zero3, linearDamping |-> 0]
    /\ colliders = <<SpawnCollider>>
    /\ timers = <<>>
    /\ sinceJump = CooldownMs
    /\ inputVelocity = ZeroVelocity
    /\ animation = "none"
    /\ keyMap = NoKeys
    /\ yaw = 0
    /\ lastCall = "constructor"
    /\ calls = <<Call("createRigidBody", SpawnPosition), Call("createCollider", Zero3)>>

\* The state after the constructor (lines 14-52).
Init ==
    /\ grounded = FALSE
    /\ wait = FALSE
    /\ accelerationFactor = AccelerationOne
    /\ body = [translation |-> SpawnPosition, linvel |-> Zero3, linearDamping |-> 0]
    /\ colliders = <<SpawnCollider>>
    /\ timers = <<>>
    /\ sinceJump = CooldownMs
    /\ inputVelocity = ZeroVelocity
    /\ animation = "none"
    /\ keyMap = NoKeys
    /\ yaw = 0
    /\ lastCall = "constructor"
    /\ calls = <<Call("createRigidBody", SpawnPosition), Call("createCollider", Zero3)>>

\* ------------------------------------------------------------------ actions
\* init(), up to the await (lines 54-56).
InitStart ==
    /\ animation = "none"
    /\ animation' = "loading"
    /\ calls' = <<Call("animationController.init", Zero3)>>
    /\ lastCall' = "init"
    /\ UNCHANGED <<grounded, wait, accelerationFactor, body, colliders, timers,
                   sinceJump, inputVelocity, keyMap, yaw>>

\* The animation controller's init() resolves: its model is available.
InitResolve ==
    /\ animation = "loading"
    /\ animation' = "ready"
    /\ calls' = <<>>
    /\ lastCall' = "event"
    /\ UNCHANGED <<grounded, wait, accelerationFactor, body, colliders, timers,
                   sinceJump, inputVelocity, keyMap, yaw>>

\* Faulty variant: a landing that leaves the collider as it is.
SetGroundedKeepsCollider(g) ==
    IF g # grounded
    THEN /\ grounded' = g
         /\ IF g
            THEN /\ body' = [body EXCEPT !.linearDamping = GroundedDamping]
                 /\ timers' = Append(timers, CooldownMs)
                 /\ calls' = <<Call("setLinearDamping", <<GroundedDamping, 0, 0>>),
                               Call("setTimeout", <<CooldownMs, 0, 0>>)>>
                 /\ UNCHANGED colliders
            ELSE /\ body' = [body EXCEPT !.linearDamping = AirborneDamping]
                 /\ calls' = <<Call("setLinearDamping", <<AirborneDamping, 0, 0>>)>>
                 /\ UNCHANGED <<timers, colliders>>
    ELSE /\ calls' = <<>>
         /\ UNCHANGED <<grounded, body, timers, colliders>>

\* Faulty variant: the side effects run without the test for a change.
SetGroundedAlways(g) ==
    /\ grounded' = g
    /\ IF g
       THEN /\ body' = [body EXCEPT !.linearDamping = GroundedDamping]
            /\ timers' = Append(timers, CooldownMs)
            /\ colliders' = SwappedColliders(colliders, originalCapsuleHeight,
                                             originalCapsuleTranslation)
            /\ calls' = <<Call("setLinearDamping", <<GroundedDamping, 0, 0>>),
                          Call("setTimeout", <<CooldownMs, 0, 0>>)>> \o SwapCalls
       ELSE /\ body' = [body EXCEPT !.linearDamping = AirborneDamping]
            /\ calls' = <<Call("setLinearDamping", <<AirborneDamping, 0, 0>>)>>
            /\ UNCHANGED <<timers, colliders>>

\* Faulty variant: leaving the ground puts the standing collider back too.
SetGroundedSwapsOnTakeoff(g) ==
    IF g # grounded
    THEN /\ grounded' = g
         /\ colliders' = SwappedColliders(colliders, originalCapsuleHeight,
                                          originalCapsuleTranslation)
         /\ IF g
            THEN /\ body' = [body EXCEPT !.linearDamping = GroundedDamping]
                 /\ timers' = Append(timers, CooldownMs)
                 /\ calls' = <<Call("setLinearDamping", <<GroundedDamping, 0, 0>>),
                               Call("setTimeout", <<CooldownMs, 0, 0>>)>> \o SwapCalls
            ELSE /\ body' = [body EXCEPT !.linearDamping = AirborneDamping]
                 /\ timers' = timers
                 /\ calls' = <<Call("setLinearDamping", <<AirborneDamping, 0, 0>>)>>
    ELSE /\ calls' = <<>>
         /\ UNCHANGED <<grounded, body, timers, colliders>>

\* setGrounded(g), lines 59-74.
SetGroundedEffect(g) ==
    IF g # grounded
    THEN /\ grounded' = g
         /\ IF g
            THEN /\ body' = [body EXCEPT !.linearDamping = GroundedDamping]
                 /\ timers' = Append(timers, CooldownMs)
                 /\ colliders' = SwappedColliders(colliders, originalCapsuleHeight,
                                                  originalCapsuleTranslation)
                 /\ calls' = <<Call("setLinearDamping", <<GroundedDamping, 0, 0>>),
                               Call("setTimeout", <<CooldownMs, 0, 0>>)>> \o SwapCalls
            ELSE /\ body' = [body EXCEPT !.linearDamping = AirborneDamping]
                 /\ calls' = <<Call("setLinearDamping", <<AirborneDamping, 0, 0>>)>>
                 /\ UNCHANGED <<timers, colliders>>
    ELSE /\ calls' = <<>>
         /\ UNCHANGED <<grounded, body, timers, colliders>>

SetGrounded(g) ==
    /\ (g /\ g # grounded) => Len(timers) < MaxTimers
    /\ SetGroundedEffect(g)
    /\ lastCall' = "setGrounded"
    /\ UNCHANGED <<wait, accelerationFactor, sinceJump, inputVelocity, animation,
                   keyMap, yaw>>

\* updateCapsuleHeight(height, translation) called from outside, lines 76-80.
UpdateCapsuleHeight(height, translation) ==
    /\ colliders' = SwappedColliders(colliders, height, translation)
    /\ calls' = SwapCalls
    /\ lastCall' = "updateCapsuleHeight"
    /\ UNCHANGED <<grounded, wait, accelerationFactor, body, timers, sinceJump,
                   inputVelocity, animation, keyMap, yaw>>

\* Faulty variant: the respawn that ends the cooldown too.
ResetClearsCooldown ==
    /\ body' = ResetBody(body)
    /\ wait' = FALSE
    /\ calls' = ResetCalls
    /\ lastCall' = "reset"
    /\ UNCHANGED <<grounded, accelerationFactor, colliders, timers, sinceJump,
                   inputVelocity, animation, keyMap, yaw>>

\* reset() called from outside, lines 82-86.
Reset ==
    /\ body' = ResetBody(body)
    /\ calls' = ResetCalls
    /\ lastCall' = "reset"
    /\ UNCHANGED <<grounded, wait, accelerationFactor, colliders, timers, sinceJump,
                   inputVelocity, animation, keyMap, yaw>>

\* update(delta), lines 88-167. The body's velocity after a non-zero impulse is
\* the physics engine's: any of Velocities.
Update(delta) ==
    LET jump == JumpCondition(grounded, wait, keyMap)
        v == ApplyYaw(LocalVelocity(grounded, wait, accelerationFactor, keyMap, delta),
                      yaw)
        oob == OutOfBounds(body.translation)
        ready == animation = "ready"
    IN  /\ accelerationFactor' =
              FrameAcceleration(grounded, accelerationFactor, keyMap, delta)
        /\ wait' = (wait \/ jump)
        /\ colliders' = IF jump
                        THEN SwappedColliders(colliders, jumpCapsuleHeight,
                                              jumpCapsuleTranslation)
                        ELSE colliders
        /\ sinceJump' = IF jump THEN 0 ELSE sinceJump
        /\ inputVelocity' = v
        /\ \E vel \in (IF IsZeroVector(v) THEN {body.linvel} ELSE Velocities) :
              body' = IF oob THEN ResetBody(body) ELSE [body EXCEPT !.linvel = vel]
        /\ calls' = (IF jump THEN SwapCalls ELSE <<>>)
                    \o <<Call("applyImpulse", Zero3)>>
                    \o (IF oob THEN ResetCalls ELSE <<>>)
                    \o (IF ready THEN FollowCalls(body'.translation)
                        ELSE FollowCallsUnavailable(body'.translation))
        /\ lastCall' = "update"
        /\ UNCHANGED <<grounded, timers, animation, keyMap, yaw>>

\* Faulty variant: the callback that leaves the flag as it is.
TimeoutKeepsFlag ==
    /\ timers # <<>>
    /\ Head(timers) = 0
    /\ timers' = Tail(timers)
    /\ calls' = <<>>
    /\ lastCall' = "timeout"
    /\ UNCHANGED <<wait, grounded, accelerationFactor, body, colliders, sinceJump,
                   inputVelocity, animation, keyMap, yaw>>

\* The callback of a setTimeout of line 65 runs: its 250 ms have passed.
Timeout ==
    /\ timers # <<>>
    /\ Head(timers) = 0
    /\ wait' = FALSE
    /\ timers' = Tail(timers)
    /\ calls' = <<>>
    /\ lastCall' = "timeout"
    /\ UNCHANGED <<grounded, accelerationFactor, body, colliders, sinceJump,
                   inputVelocity, animation, keyMap, yaw>>

\* Real time passes between two calls.
Tick ==
    /\ timers' = [i \in 1..Len(timers) |-> Max(0, timers[i] - TickMs)]
    /\ sinceJump' = Min(CooldownMs, sinceJump + TickMs)
    /\ calls' = <<>>
    /\ lastCall' = "event"
    /\ UNCHANGED <<grounded, wait, accelerationFactor, body, colliders,
                   inputVelocity, animation, keyMap, yaw>>

\* The physics world steps: the engine moves the body.
WorldStep(translation, vel) ==
    /\ body' = [body EXCEPT !.translation = translation, !.linvel = vel]
    /\ calls' = <<>>
    /\ lastCall' = "event"
    /\ UNCHANGED <<grounded, wait, accelerationFactor, colliders, timers, sinceJump,
                   inputVelocity, animation, keyMap, yaw>>

\* The keyboard's keydown and keyup handlers set keyMap[k].
KeyEvent(k, down) ==
    /\ keyMap' = [keyMap EXCEPT ![k] = down]
    /\ calls' = <<>>
    /\ lastCall' = "event"
    /\ UNCHANGED <<grounded, wait, accelerationFactor, body, colliders, timers,
                   sinceJump, inputVelocity, animation, yaw>>

\* The follow camera turns.
TurnCamera(y) ==
    /\ yaw' = y
    /\ calls' = <<>>
    /\ lastCall' = "event"
    /\ UNCHANGED <<grounded, wait, accelerationFactor, body, colliders, timers,
                   sinceJump, inputVelocity, animation, keyMap>>

\* ----------------------------------------------------------- specifications
\* The grounded state machine, the frames and real time.
Machine ==
    \/ \E g \in BOOLEAN : SetGrounded(g)
    \/ \E delta \in Deltas : Update(delta)
    \/ Timeout
    \/ Tick

Lifecycle == InitStart \/ InitResolve

World ==
    \/ Reset
    \/ \E translation \in Translations, vel \in Velocities : WorldStep(translation, vel)

Keyboard(keys) == \E k \in keys, down \in BOOLEAN : KeyEvent(k, down)

Camera == \E y \in Yaws : TurnCamera(y)

ForcedSwap ==
    \/ UpdateCapsuleHeight(originalCapsuleHeight, originalCapsuleTranslation)
    \/ UpdateCapsuleHeight(jumpCapsuleHeight, jumpCapsuleTranslation)

\* The controller in its world, with the forward and the jump key in use and
\* the camera at rest.
Controller == Machine \/ Lifecycle \/ World \/ Keyboard({"KeyW", "Space"})

Next == Controller \/ ForcedSwap

Spec == Init /\ [][Next]_vars

\* The controller without outside calls of updateCapsuleHeight.
SpecNoForcedSwap == Init /\ [][Controller]_vars

\* The cooldown under fair timers: real time goes on, and a timer whose 250 ms
\* have passed runs its callback. Nothing is assumed of the frames.
TimerNext == Machine \/ Keyboard({"KeyW", "Space"})

SpecTimerFair == Init /\ [][TimerNext]_vars /\ WF_vars(Tick) /\ WF_vars(Timeout)

\* The walk under fair frames: the render loop goes on calling update(). The
\* forward and the backward key are in use.
FrameNext == Machine \/ Keyboard({"KeyW", "KeyS"})

SpecFrameFair ==
    Init /\ [][FrameNext]_vars /\ WF_vars(\E delta \in Deltas : Update(delta))

\* The movement input: every key and the camera yaw, the body left where it
\* spawned.
InputNext == Machine \/ Keyboard(Keys) \/ Camera

SpecInput == Init /\ [][InputNext]_vars

\* ------------------------------------------------------------------ claims
TheProfile == Profile(colliders[1])

CountCalls(log, fn) == Cardinality({i \in DOMAIN log : log[i].fn = fn})

\* The places of the calls of fn in log.
Places(log, fn) == {i \in DOMAIN log : log[i].fn = fn}

DirectionalKeyHeld ==
    keyMap["KeyW"] \/ keyMap["KeyS"] \/ keyMap["KeyA"] \/ keyMap["KeyD"]

\* C1: an update() gives the impulse the vertical component 5, sets the
\* cooldown flag and swaps the collider to the crouchJump profile exactly when
\* grounded is true, the cooldown flag is false and the jump key is held at the
\* call; every other update() gives the vertical component 0 and changes
\* neither the cooldown flag nor the collider.
C1_JumpExactlyWhenAllowed ==
    [][lastCall' = "update" =>
         IF grounded /\ ~wait /\ keyMap["Space"]
         THEN /\ inputVelocity'.y = 5
              /\ wait'
              /\ Len(colliders') = 1
              /\ Profile(colliders'[1]) = "crouchJump"
              /\ CountCalls(calls', "removeCollider") = 1
              /\ CountCalls(calls', "createCollider") = 1
         ELSE /\ inputVelocity'.y = 0
              /\ wait' = wait
              /\ colliders' = colliders
              /\ CountCalls(calls', "removeCollider") = 0
              /\ CountCalls(calls', "createCollider") = 0]_vars

\* C1 witness: a frame that jumped with the camera turned, and left the
\* cooldown flag set and the crouchJump collider attached.
C1_Witness ==
    /\ lastCall = "update"
    /\ grounded /\ wait /\ keyMap["Space"]
    /\ inputVelocity.y = 5
    /\ yaw = 1
    /\ TheProfile = "crouchJump"

\* C2: after a jump succeeds, no update() within the following 250 ms of real
\* time gives the impulse a non-zero vertical component.
C2_NoJumpWithinCooldown ==
    [][(lastCall' = "update" /\ sinceJump < CooldownMs) => inputVelocity'.y = 0]_vars

\* C3: without outside calls of updateCapsuleHeight, the attached collider is
\* the one collider of the body and has one of the two profiles; a state with
\* grounded true and a profile other than standing is entered only by a
\* successful jump (made while grounded) and lasts at most until grounded
\* becomes false; and every step from airborne to grounded leaves the standing
\* profile attached.
C3_ProfileMatchesState ==
    [][/\ Len(colliders') = 1
       /\ Profile(colliders'[1]) \in {"standing", "crouchJump"}
       /\ (grounded' /\ Profile(colliders'[1]) # "standing") =>
             \/ grounded /\ Profile(colliders[1]) = "crouchJump"
             \/ /\ lastCall' = "update"
                /\ grounded /\ ~wait /\ keyMap["Space"]
                /\ Profile(colliders'[1]) = "crouchJump"
       /\ (~grounded /\ grounded') => Profile(colliders'[1]) = "standing"]_vars

\* C3 witness: a landing after a jump (its cooldown flag is still set) has
\* attached a new collider, of the standing profile.
C3_Witness ==
    /\ lastCall = "setGrounded"
    /\ grounded /\ wait
    /\ TheProfile = "standing"
    /\ CountCalls(calls, "createCollider") = 1

\* C4: setGrounded(v) with v equal to grounded changes nothing (grounded, the
\* body's damping, the attached collider, the cooldown flag, the pending
\* timers) and calls no collaborator; and any setGrounded call changes the
\* damping, starts a timer and swaps the collider at most once each.
C4_RedundantSetGroundedIsNoOp ==
    [][\A g \in BOOLEAN :
          SetGrounded(g) =>
             /\ g = grounded =>
                   /\ UNCHANGED <<grounded, body, colliders, wait, timers>>
                   /\ calls' = <<>>
             /\ CountCalls(calls', "setLinearDamping") <= 1
             /\ CountCalls(calls', "setTimeout") <= 1
             /\ CountCalls(calls', "removeCollider") <= 1
             /\ CountCalls(calls', "createCollider") <= 1
             /\ Len(timers') <= Len(timers) + 1]_vars

\* C4 witness: a setGrounded(true) that changed nothing, made while grounded
\* with a timer pending.
C4_Witness ==
    /\ lastCall = "setGrounded"
    /\ calls = <<>>
    /\ grounded
    /\ timers # <<>>

\* C5: accelerationFactor is within [1.0, 2.0] in every reachable state.
C5_AccelerationInRange ==
    /\ accelerationFactor >= 1000
    /\ accelerationFactor <= 2000

\* C5 witness: a frame with a directional key held has brought the factor to
\* the cap.
C5_Witness ==
    /\ lastCall = "update"
    /\ grounded /\ DirectionalKeyHeld
    /\ accelerationFactor = 2000

\* C6: after any update() in which no directional input is in effect (no
\* directional key held, or the direction is zero), accelerationFactor is
\* exactly 1.0, grounded or airborne.
C6_FactorResetsWithoutInput ==
    [][(/\ lastCall' = "update"
        /\ \/ ~DirectionalKeyHeld
           \/ (inputVelocity'.dx = 0 /\ inputVelocity'.dz = 0))
       => accelerationFactor' = 1000]_vars

\* C7: the impulse of an update() is the exact zero vector in every frame in
\* which the player is airborne, whatever keys are held, and in every frame in
\* which the player is grounded and no key is held.
C7_ZeroImpulse ==
    [][lastCall' = "update" =>
         /\ ~grounded =>
               /\ inputVelocity'.dx = 0 /\ inputVelocity'.dz = 0
               /\ inputVelocity'.y = 0 /\ inputVelocity'.mag = 0
         /\ (grounded /\ \A k \in Keys : ~keyMap[k]) =>
               /\ inputVelocity'.dx = 0 /\ inputVelocity'.dz = 0
               /\ inputVelocity'.y = 0 /\ inputVelocity'.mag = 0]_vars

\* C7 witness: an airborne frame with the forward and the jump key held, the
\* cooldown flag clear, gave the zero vector.
C7_Witness ==
    /\ lastCall = "update"
    /\ ~grounded /\ ~wait
    /\ keyMap["KeyW"] /\ keyMap["Space"]
    /\ inputVelocity = [dx |-> 0, dz |-> 0, mag |-> 0, y |-> 0]

\* C8: in a grounded update() back beats forward (z = +1) and right beats left
\* (x = +1), each axis on its own, and the speed limit is 9.5 with a
\* directional key held and 1 without. (The direction is read through the
\* camera yaw: a quarter turn takes (x, z) to (z, -x).)
C8_LaterKeyWins ==
    [][(lastCall' = "update" /\ grounded) =>
         LET x == IF keyMap["KeyD"] THEN 1 ELSE IF keyMap["KeyA"] THEN -1 ELSE 0
             z == IF keyMap["KeyS"] THEN 1 ELSE IF keyMap["KeyW"] THEN -1 ELSE 0
             limit == IF DirectionalKeyHeld THEN 95 ELSE 10
         IN  /\ yaw = 0 => (inputVelocity'.dx = x /\ inputVelocity'.dz = z)
             /\ yaw = 1 => (inputVelocity'.dx = z /\ inputVelocity'.dz = -x)
             /\ Limit(keyMap) = limit
             /\ IF DirectionalKeyHeld
                THEN \E delta \in Deltas :
                        inputVelocity'.mag = delta * limit * accelerationFactor'
                ELSE inputVelocity'.mag = 0]_vars

\* C8 witness: a grounded frame with all four directional keys held moved back
\* and right.
C8_Witness ==
    /\ lastCall = "update"
    /\ grounded /\ yaw = 0
    /\ keyMap["KeyW"] /\ keyMap["KeyS"] /\ keyMap["KeyA"] /\ keyMap["KeyD"]
    /\ inputVelocity.dx = 1 /\ inputVelocity.dz = 1
    /\ inputVelocity.mag > 0

\* C9: reset() leaves the body with linear velocity (0,0,0) and translation
\* (0,1,0), and notifies the UI exactly once.
C9_ResetRespawns ==
    [][lastCall' = "reset" =>
         /\ body'.linvel = <<0, 0, 0>>
         /\ body'.translation = <<0, 1, 0>>
         /\ CountCalls(calls', "ui.reset") = 1]_vars

\* C9 witness: a reset() called while airborne, in cooldown and with the
\* crouchJump collider.
C9_Witness ==
    /\ lastCall = "reset"
    /\ ~grounded /\ wait
    /\ TheProfile = "crouchJump"
    /\ body.translation = <<0, 1, 0>>

\* C10: an update() that starts with the body's vertical position below -3
\* calls reset() exactly once, after the impulse is applied and before the
\* follow target is copied, and every later step of the frame is given the
\* translation (0,1,0), the velocity being zero; an update() that starts with
\* the vertical position at or above -3 does not call reset().
C10_OutOfBoundsResetsOnce ==
    [][lastCall' = "update" =>
         IF body.translation[2] < -3
         THEN /\ CountCalls(calls', "ui.reset") = 1
              /\ CountCalls(calls', "setLinvel") = 1
              /\ CountCalls(calls', "setTranslation") = 1
              /\ \A i \in Places(calls', "applyImpulse"), j \in Places(calls', "setLinvel") :
                    i < j
              /\ \A i \in Places(calls', "ui.reset"), j \in Places(calls', "followTarget.copy") :
                    i < j
              /\ CountCalls(calls', "applyImpulse") = 1
              /\ CountCalls(calls', "followTarget.copy") = 1
              /\ \A i \in Places(calls', "ui.reset"), j \in DOMAIN calls' :
                    j > i => /\ calls'[j].vec = <<0, 1, 0>>
                             /\ calls'[j].fn \notin {"setLinvel", "setTranslation",
                                                     "applyImpulse"}
              /\ body'.translation = <<0, 1, 0>>
              /\ body'.linvel = <<0, 0, 0>>
         ELSE /\ CountCalls(calls', "ui.reset") = 0
              /\ CountCalls(calls', "setLinvel") = 0
              /\ CountCalls(calls', "setTranslation") = 0
              /\ body'.translation = body.translation]_vars

\* C10 witness: a frame that jumped and was reset, with the avatar available:
\* the animation was advanced on the translation (0,1,0).
C10_Witness ==
    /\ lastCall = "update"
    /\ inputVelocity.y = 5
    /\ CountCalls(calls, "ui.reset") = 1
    /\ \E i \in DOMAIN calls :
          calls[i] = [fn |-> "animationController.update", vec |-> <<0, 1, 0>>]

\* C11: an update() made while the avatar is unavailable (before init(), or
\* before the animation controller is ready) completes without failing: it
\* throws nothing, and applies the impulse and moves the camera anchor.
C11_UpdateToleratesNoAvatar ==
    [][(lastCall' = "update" /\ animation # "ready") =>
         /\ CountCalls(calls', "throw") = 0
         /\ CountCalls(calls', "applyImpulse") = 1
         /\ CountCalls(calls', "pivot.lerp") = 1]_vars

\* C12: in every state between calls the body has exactly one attached
\* collider, and a call that removes a collider creates one too.
C12_ExactlyOneCollider ==
    /\ Len(colliders) = 1
    /\ lastCall # "constructor" =>
          CountCalls(calls, "removeCollider") = CountCalls(calls, "createCollider")
    /\ lastCall = "constructor" =>
          (CountCalls(calls, "createCollider") = 1
           /\ CountCalls(calls, "removeCollider") = 0)

\* C12 witness: a landing after a jump has removed one collider and created
\* one, and one collider (of the swap's mass) is attached.
C12_Witness ==
    /\ lastCall = "setGrounded"
    /\ grounded /\ wait
    /\ Len(colliders) = 1
    /\ colliders[1].mass = 500
    /\ CountCalls(calls, "removeCollider") = 1
    /\ CountCalls(calls, "createCollider") = 1

\* C14 as claimed: immediately after construction grounded is true.
C14_StartsGrounded == lastCall = "constructor" => grounded

\* C14 as amended: the state machine starts airborne. Until the first change
\* of grounded (the body's damping is still the 0 it was created with) grounded
\* is false, a setGrounded(true) is a landing with all its effects, and an
\* update() gives the zero vector and leaves accelerationFactor alone, whatever
\* keys are held.
C14_StartsAirborne ==
    [][body.linearDamping = 0 =>
         /\ ~grounded
         /\ SetGrounded(TRUE) =>
               /\ grounded'
               /\ body'.linearDamping = 40
               /\ Len(timers') = Len(timers) + 1
               /\ CountCalls(calls', "createCollider") = 1
         /\ lastCall' = "update" =>
               /\ inputVelocity' = [dx |-> 0, dz |-> 0, mag |-> 0, y |-> 0]
               /\ accelerationFactor' = accelerationFactor
               /\ wait' = wait]_vars

\* C14 witness: an update() before the first landing, with the forward and the
\* jump key held, gave the zero vector.
C14_Witness ==
    /\ lastCall = "update"
    /\ body.linearDamping = 0
    /\ keyMap["KeyW"] /\ keyMap["Space"]
    /\ ~grounded /\ ~wait
    /\ inputVelocity = [dx |-> 0, dz |-> 0, mag |-> 0, y |-> 0]

\* C15: a landing (airborne to grounded) starts one timer of 250 ms, no
\* update() touches a pending timer, and under fair timers every landing is
\* followed by the timer's callback leaving the cooldown flag false.
C15_LandingClearsCooldown ==
    /\ [][/\ (~grounded /\ grounded') => timers' = Append(timers, 250)
          /\ lastCall' = "update" => timers' = timers]_vars
    /\ (lastCall = "setGrounded" /\ grounded /\ timers # <<>>)
          ~> (lastCall = "timeout" /\ ~wait)

\* C15 witness: the callback of a landing's timer has cleared the flag of a jump
\* after frames ran in between.
C15_Witness ==
    /\ lastCall = "timeout"
    /\ ~wait /\ grounded
    /\ sinceJump = 0
    /\ timers = <<>>

\* C16: on every landing (airborne to grounded) the collider created has the
\* mass, friction and collision-event flag of the collider it replaces.
C16_LandingKeepsColliderProperties ==
    [][(~grounded /\ grounded') =>
         /\ colliders'[1].mass = colliders[1].mass
         /\ colliders'[1].friction = colliders[1].friction
         /\ colliders'[1].collisionEvents = colliders[1].collisionEvents]_vars

\* C17: a setGrounded(false) while grounded changes only the grounded flag and
\* the body's linear damping, set to 0.1 (1 in tenths): the collider, the
\* cooldown flag, the pending timers and accelerationFactor stay as they were,
\* and the only call made is the one that sets the damping.
C17_TakeoffChangesOnlyDamping ==
    [][(grounded /\ ~grounded') =>
         /\ lastCall' = "setGrounded"
         /\ body' = [body EXCEPT !.linearDamping = 1]
         /\ colliders' = colliders
         /\ wait' = wait
         /\ timers' = timers
         /\ accelerationFactor' = accelerationFactor
         /\ calls' = <<Call("setLinearDamping", <<1, 0, 0>>)>>]_vars

\* C17 witness: after a jump the player has left the ground: the crouchJump
\* collider and the cooldown flag of the jump are still there.
C17_Witness ==
    /\ lastCall = "setGrounded"
    /\ ~grounded /\ wait
    /\ body.linearDamping = 1
    /\ Profile(colliders[1]) = "crouchJump"
    /\ accelerationFactor > 1000

\* C18: while the player stays grounded with a directional key held,
\* accelerationFactor never decreases, a frame adds delta * 0.1 to it below the
\* cap and never takes it above 2.0, and, under fair frames, if the player stays
\* grounded with the key held for good the factor comes to 2.0 and stays there.
C18_AccelerationRamp ==
    /\ [][(grounded /\ grounded' /\ DirectionalKeyHeld /\ DirectionalKeyHeld') =>
            /\ accelerationFactor' >= accelerationFactor
            /\ accelerationFactor' <= 2000
            /\ lastCall' = "update" =>
                  \E delta \in Deltas :
                     accelerationFactor' = Min(accelerationFactor + delta, 2000)
            /\ accelerationFactor = 2000 => accelerationFactor' = 2000]_vars
    /\ <>[](grounded /\ DirectionalKeyHeld) => <>[](accelerationFactor = 2000)

\* C18 witness: frames with the forward key held have taken the factor of a
\* grounded player from 1.0 to the cap.
C18_Witness ==
    /\ lastCall = "update"
    /\ grounded
    /\ keyMap["KeyW"] /\ ~keyMap["KeyS"]
    /\ inputVelocity.dz = -1
    /\ accelerationFactor = 2000

\* C19: the cooldown flag rises only in an update() that jumps (grounded, jump
\* key held, vertical component 5) and falls only in a timer callback; a timer
\* is started only by a landing. So from a state with the flag set and no timer
\* pending, every step that is not a landing leaves the flag set and no timer
\* pending, and an update() with the flag set never jumps.
C19_CooldownOnlyClearedByTimer ==
    [][/\ (~wait /\ wait') =>
             /\ lastCall' = "update"
             /\ grounded /\ keyMap["Space"]
             /\ inputVelocity'.y = 5
       /\ (wait /\ ~wait') => (lastCall' = "timeout" /\ Len(timers') < Len(timers))
       /\ Len(timers') > Len(timers) => (~grounded /\ grounded')
       /\ (wait /\ timers = <<>> /\ ~(~grounded /\ grounded')) =>
             (wait' /\ timers' = <<>>)
       /\ (wait /\ lastCall' = "update") =>
             (inputVelocity'.y = 0 /\ colliders' = colliders)]_vars

\* C19 witness: long after a jump that was followed by no landing, with no
\* timer pending, an update() with the jump key held did not jump.
C19_Witness ==
    /\ lastCall = "update"
    /\ wait /\ grounded
    /\ timers = <<>>
    /\ sinceJump = 250
    /\ keyMap["Space"]
    /\ inputVelocity.y = 0

\* C20: a reset(), called from outside or by an update() that starts below the
\* bound -3, changes of the body only the velocity and the translation:
\* grounded, the pending timers and the damping are as before; the direct call
\* leaves the cooldown flag, accelerationFactor and the collider too, and in an
\* update() these change only by the frame's own rules (a jump, a grounded
\* frame's factor), never for an airborne player.
C20_ResetChangesOnlyBody ==
    [][/\ lastCall' = "reset" =>
             /\ UNCHANGED <<grounded, wait, timers, accelerationFactor, colliders>>
             /\ body' = [body EXCEPT !.linvel = <<0, 0, 0>>, !.translation = <<0, 1, 0>>]
       /\ (lastCall' = "update" /\ body.translation[2] < -3) =>
             /\ UNCHANGED <<grounded, timers>>
             /\ body' = [body EXCEPT !.linvel = <<0, 0, 0>>, !.translation = <<0, 1, 0>>]
             /\ wait => wait'
             /\ inputVelocity'.y = 0 => UNCHANGED <<wait, colliders>>
             /\ ~grounded => UNCHANGED <<wait, accelerationFactor, colliders>>]_vars

\* C20 witness: an update() below the bound has respawned a player that is
\* airborne, in cooldown, with the crouchJump collider and a raised factor, and
\* all four are still so.
C20_Witness ==
    /\ lastCall = "update"
    /\ CountCalls(calls, "ui.reset") = 1
    /\ ~grounded /\ wait
    /\ TheProfile = "crouchJump"
    /\ accelerationFactor = 1600
    /\ body.linearDamping = 1
    /\ body.translation = <<0, 1, 0>>

====
